---- MODULE Spec2Model ----
(***************************************************************************)
(* The editor controller of wd40text (src/src/editor.rs) as a state        *)
(* machine.  One step is what the single thread does between two blocking  *)
(* reads of the keyboard, or one redraw.  Text is a sequence of one-       *)
(* character strings; Option<T> is a sequence of length 0 (None) or 1.     *)
(* Document and Row are not part of the sources at hand: their operations  *)
(* (insert, delete, find, save, open) follow spec.md sections 3, 4.1, 6.   *)
(* The wildcard matcher of FileType::from (src/src/filetype.rs) is modelled *)
(* statement by statement on its own variable.                             *)
(***************************************************************************)
EXTENDS Integers, Sequences, FiniteSets, TLC

\* ------------------------------------------------------------------ bounds
MaxRows == 2
MaxChars == 2
MaxText == 2
MaxAnswer == 3
MaxSize == 2
MaxPattern == 3
MaxName == 3

\* --------------------------------------------------------------- constants
QUIT_TIMES == 3

\* ----------------------------------------------------------------- options
None == <<>>
Some(v) == <<v>>
is_some(o) == o # <<>>
is_none(o) == o = <<>>
unwrap(o) == o[1]

\* ------------------------------------------------------------------- text
Str1(a) == <<a>>
Str2(a, b) == <<a, b>>
Str3(a, b, c) == <<a, b, c>>
Str4(a, b, c, d) == <<a, b, c, d>>

Spaces == {" "}
Lower(c) ==
    CASE c = "T" -> "t"
      [] c = "X" -> "x"
      [] c = "O" -> "o"
      [] c = "D" -> "d"
      [] c = "C" -> "c"
      [] OTHER -> c

RECURSIVE trim_start(_)
trim_start(s) ==
    IF s # <<>> /\ Head(s) \in Spaces THEN trim_start(Tail(s)) ELSE s

RECURSIVE trim_end(_)
trim_end(s) ==
    IF s # <<>> /\ s[Len(s)] \in Spaces
    THEN trim_end(SubSeq(s, 1, Len(s) - 1))
    ELSE s

trim(s) == trim_end(trim_start(s))

to_ascii_lowercase(s) == [i \in 1..Len(s) |-> Lower(s[i])]

contains(s, c) == \E i \in 1..Len(s) : s[i] = c

starts_with(s, c) == s # <<>> /\ Head(s) = c

RECURSIVE trim_start_matches(_, _)
trim_start_matches(s, c) ==
    IF s # <<>> /\ Head(s) = c THEN trim_start_matches(Tail(s), c) ELSE s

\* ---------------------------------------------------------------- numbers
saturating_sub(a, b) == IF a > b THEN a - b ELSE 0

\* --------------------------------------------------------------- positions
Position(x, y) == [x |-> x, y |-> y]

\* ------------------------------------------------------------------- keys
Key(code) == [code |-> code, ch |-> "", ctrl |-> FALSE]
Char(c) == [code |-> "Char", ch |-> c, ctrl |-> FALSE]
Ctrl(c) == [code |-> "Char", ch |-> c, ctrl |-> TRUE]

MotionCodes == {"Up", "Down", "Left", "Right", "PageUp", "PageDown", "End", "Home"}

\* ------------------------------------------------------------- status text
HELP_INITIAL ==
    <<"HELP: Ctrl-F = find | Ctrl-S = save | :q = quit | :q! = force quit | :help = show help again",
      <<>> >>
HELP_COMMAND ==
    <<"HELP: Ctrl-F=find | Ctrl-S=save | Enter=newline | ESC=cancel | :w=write | :q=quit | :q!=force quit | :wq=write+quit | :help=show help | Save-as will ask for .txt/.docx/.odt",
      <<>> >>
ErrOpen(file_name) == <<"ERR: Could not open file: ", file_name>>
WARNING == <<"WARNING! File has unsaved changes. Use :q! to force quit or save first.", <<>> >>
ABORTED == <<"aborted", <<>> >>
SAVED == <<"File saved successfully.", <<>> >>
WRITE_ERROR == <<"Error writing file!", <<>> >>
EMPTY == <<"", <<>> >>
UnknownCommand(command) == <<"Unknown command: ", command>>
PromptText(prompt, result) == <<prompt, result>>

PROMPT_NAME == "name: "
PROMPT_EXT == "(txt/docx/odt): "
PROMPT_SEARCH == "Search (ESC to cancel, Arrows to navigate): "

\* StatusMessage::from: the text and the time it was set; expired records
\* that five seconds have passed since.
StatusMessage(text) == [text |-> text, expired |-> FALSE]

\* --------------------------------------------------------------- sequences
InsertAt(s, i, v) == SubSeq(s, 1, i) \o <<v>> \o SubSeq(s, i + 1, Len(s))
RemoveAt(s, i) == SubSeq(s, 1, i) \o SubSeq(s, i + 2, Len(s))
ReplaceAt(s, i, v) == [s EXCEPT ![i + 1] = v]

\* --------------------------------------------------- Row (spec.md 3, 4.1)
\* Offsets count from 0; an offset at or past the end addresses the end.
row_insert(row, x, c) == IF x >= Len(row) THEN Append(row, c) ELSE InsertAt(row, x, c)
row_delete(row, x) == IF x >= Len(row) THEN row ELSE RemoveAt(row, x)
row_split_left(row, x) == SubSeq(row, 1, IF x > Len(row) THEN Len(row) ELSE x)
\* A split that leaves the characters before the offset in the new row too.
row_split_right_whole(row, x) == row

row_split_right(row, x) == SubSeq(row, x + 1, Len(row))

\* ---------------------------------------------- Document (spec.md 3, 4.1)
Document(rows, dirty, file_name) ==
    [rows |-> rows, dirty |-> dirty, file_name |-> file_name]

\* A new untitled document: exactly one empty row, no file identity.
document_default == Document(<< <<>> >>, FALSE, None)

\* Load that keeps a file of no lines as a document of no rows.
document_open_row_per_line(name, lines) == Document(lines, FALSE, Some(name))

\* Load: one row per line of the file, and the one empty row of an empty
\* document for a file of no lines; dirty = false.
document_open(name, lines) ==
    Document(IF lines = <<>> THEN << <<>> >> ELSE lines, FALSE, Some(name))

document_row(doc, y) == IF y < Len(doc.rows) THEN Some(doc.rows[y + 1]) ELSE None
document_len(doc) == Len(doc.rows)
is_dirty(doc) == doc.dirty

\* What insert does with a position that addresses no row is left open by
\* spec.md 4.1 ("caller's responsibility"): oob chooses between leaving the
\* document alone and appending a row that holds the character.
OutOfRange == {"ignore", "append"}

document_insert(doc, at, c, oob) ==
    IF at.y >= Len(doc.rows)
    THEN IF oob = "append"
         THEN [doc EXCEPT !.rows = Append(@, IF c = "\n" THEN <<>> ELSE <<c>>),
                          !.dirty = TRUE]
         ELSE doc
    ELSE LET row == doc.rows[at.y + 1]
         IN IF c = "\n"
            THEN [doc EXCEPT
                    !.rows = InsertAt(ReplaceAt(@, at.y, row_split_left(row, at.x)),
                                      at.y + 1, row_split_right(row, at.x)),
                    !.dirty = TRUE]
            ELSE [doc EXCEPT !.rows = ReplaceAt(@, at.y, row_insert(row, at.x, c)),
                             !.dirty = TRUE]

\* A delete that removes and joins without marking the document.
document_delete_unmarked(doc, at) ==
    IF at.y >= Len(doc.rows)
    THEN doc
    ELSE LET row == doc.rows[at.y + 1]
         IN IF at.x >= Len(row)
            THEN IF at.y + 1 < Len(doc.rows)
                 THEN [doc EXCEPT
                         !.rows = RemoveAt(ReplaceAt(@, at.y, row \o doc.rows[at.y + 2]),
                                           at.y + 1)]
                 ELSE doc
            ELSE [doc EXCEPT !.rows = ReplaceAt(@, at.y, row_delete(row, at.x))]

document_delete(doc, at) ==
    IF at.y >= Len(doc.rows)
    THEN doc
    ELSE LET row == doc.rows[at.y + 1]
         IN IF at.x >= Len(row)
            THEN IF at.y + 1 < Len(doc.rows)
                 THEN [doc EXCEPT
                         !.rows = RemoveAt(ReplaceAt(@, at.y, row \o doc.rows[at.y + 2]),
                                           at.y + 1),
                         !.dirty = TRUE]
                 ELSE doc
            ELSE [doc EXCEPT !.rows = ReplaceAt(@, at.y, row_delete(row, at.x)),
                             !.dirty = TRUE]

\* Where query starts in the document, as positions.
Matches(doc, query) ==
    UNION {{Position(x, y) : x \in {i \in 0..Len(doc.rows[y + 1]) :
                /\ i + Len(query) <= Len(doc.rows[y + 1])
                /\ SubSeq(doc.rows[y + 1], i + 1, i + Len(query)) = query}} :
           y \in 0..(Len(doc.rows) - 1)}

Before(p, q) == p.y < q.y \/ (p.y = q.y /\ p.x < q.x)
First(ps) == CHOOSE p \in ps : \A q \in ps : q = p \/ Before(p, q)
Last(ps) == CHOOSE p \in ps : \A q \in ps : q = p \/ Before(q, p)

\* find: the first match at or after `at` (Forward), the last match before
\* `at` (Backward), wrapping round the buffer once; None when no row holds
\* the query.
document_find(doc, query, at, direction) ==
    LET all == Matches(doc, query)
        ahead == {p \in all : ~Before(p, at)}
        behind == {p \in all : Before(p, at)}
    IN IF all = {}
       THEN None
       ELSE IF direction = "Forward"
            THEN Some(IF ahead # {} THEN First(ahead) ELSE First(all))
            ELSE Some(IF behind # {} THEN Last(behind) ELSE Last(all))

\* save: writes the rows under the file identity; io_ok is whether the
\* destination could be written.  A failure leaves the document as it was.
document_save_ok(doc, io_ok) == io_ok /\ is_some(doc.file_name)
document_save(doc, io_ok) ==
    IF document_save_ok(doc, io_ok) THEN [doc EXCEPT !.dirty = FALSE] ELSE doc
File(doc) == [name |-> unwrap(doc.file_name), rows |-> doc.rows]

TotalChars(doc) ==
    LET RECURSIVE Sum(_)
        Sum(i) == IF i = 0 THEN 0 ELSE Len(doc.rows[i]) + Sum(i - 1)
    IN Sum(Len(doc.rows))

\* char_count: the characters of all rows and one line break per row
\* boundary.
document_char_count(doc) == TotalChars(doc) + saturating_sub(Len(doc.rows), 1)

\* The model's bound on the document: an insert is offered only while the
\* document stays within MaxRows rows and MaxChars characters.
InsertFits(doc, at, c, oob) ==
    IF at.y >= Len(doc.rows)
    THEN oob = "append" =>
            /\ Len(doc.rows) < MaxRows
            /\ (c # "\n" => TotalChars(doc) < MaxChars)
    ELSE IF c = "\n" THEN Len(doc.rows) < MaxRows ELSE TotalChars(doc) < MaxChars

\* ------------------------------------------------------------------ state
VARIABLES
    terminal,          \* Terminal.size: [width, height]
    should_quit,
    cursor_position,
    offset,
    document,
    status_message,
    quit_times,
    highlighted_word,
    command_buffer,
    disk,              \* the file as last written or loaded, if any
    pc,                \* where the thread is: refresh, read_key, prompt_refresh, prompt_read, exited
    call,              \* the locals of prompt() and of its caller (save or search)
    command,           \* process_keypress's local: the argument it gave execute_command, if any
    saved,             \* process_keypress's local: how its save() ended: none, ok, failed, aborted
    glob               \* the locals of matches_glob's helper while FileType::from matches a name

vars == <<terminal, should_quit, cursor_position, offset, document, status_message,
          quit_times, highlighted_word, command_buffer, disk, pc, call, command, saved,
          glob>>

\* The editor and what its handlers touch, as one value the handlers map.
Self ==
    [terminal |-> terminal, should_quit |-> should_quit,
     cursor_position |-> cursor_position, offset |-> offset, document |-> document,
     status_message |-> status_message, quit_times |-> quit_times,
     highlighted_word |-> highlighted_word, command_buffer |-> command_buffer,
     disk |-> disk, command |-> command, saved |-> saved]

Becomes(e) ==
    /\ terminal' = e.terminal
    /\ should_quit' = e.should_quit
    /\ cursor_position' = e.cursor_position
    /\ offset' = e.offset
    /\ document' = e.document
    /\ status_message' = e.status_message
    /\ quit_times' = e.quit_times
    /\ highlighted_word' = e.highlighted_word
    /\ command_buffer' = e.command_buffer
    /\ disk' = e.disk
    /\ command' = e.command
    /\ saved' = e.saved
    /\ glob' = glob

set_status(e, text) == [e EXCEPT !.status_message = StatusMessage(text)]

NoCall ==
    [prompt |-> "", result |-> <<>>, caller |-> "", base_name |-> <<>>,
     old_position |-> Position(0, 0)]

\* No call of matches_glob is under way.
NoGlob ==
    [p |-> <<>>, t |-> <<>>, pi |-> 0, ti |-> 0, star |-> None, match_t |-> 0,
     at |-> "idle", ret |-> None]

\* ----------------------------------------------------------------- cursor
\* if let Some(row) = self.document.row(y) { row.len() } else { 0 }
row_len(e, y) ==
    IF is_some(document_row(e.document, y)) THEN Len(unwrap(document_row(e.document, y))) ELSE 0

move_cursor_target(e, code) ==
    LET terminal_height == e.terminal.height
        y == e.cursor_position.y
        x == e.cursor_position.x
        height == document_len(e.document)
        width == row_len(e, y)
    IN CASE code = "Up" -> Position(x, saturating_sub(y, 1))
         [] code = "Down" -> Position(x, IF y < height THEN y + 1 ELSE y)
         [] code = "Left" ->
                IF x > 0 THEN Position(x - 1, y)
                ELSE IF y > 0 THEN Position(row_len(e, y - 1), y - 1)
                ELSE Position(x, y)
         [] code = "Right" ->
                IF x < width THEN Position(x + 1, y)
                ELSE IF y < height THEN Position(0, y + 1)
                ELSE Position(x, y)
         [] code = "PageUp" ->
                Position(x, IF y > terminal_height THEN saturating_sub(y, terminal_height) ELSE 0)
         [] code = "PageDown" ->
                Position(x, IF y + terminal_height < height THEN y + terminal_height ELSE height)
         [] code = "Home" -> Position(0, y)
         [] code = "End" -> Position(width, y)
         [] OTHER -> Position(x, y)

move_cursor(e, code) ==
    LET p == move_cursor_target(e, code)
        width == row_len(e, p.y)
    IN [e EXCEPT !.cursor_position = Position(IF p.x > width THEN width ELSE p.x, p.y)]

scroll_axis(at, off, extent) ==
    IF at < off THEN at
    ELSE IF at >= off + extent THEN saturating_sub(at, extent) + 1
    ELSE off

scroll(e) ==
    [e EXCEPT !.offset =
        Position(scroll_axis(e.cursor_position.x, e.offset.x, e.terminal.width),
                 scroll_axis(e.cursor_position.y, e.offset.y, e.terminal.height))]

\* ------------------------------------------------------ handler outcomes
\* A handler either runs to its end or blocks in prompt(), whose locals and
\* pending caller are then held in call.
Done(e) == [e |-> e, next |-> "done", call |-> NoCall]
Blocks(e, c) == [e |-> e, next |-> "prompt", call |-> c]

\* ------------------------------------------------------------------- save
TXT == Str3("t", "x", "t")
DOCX == Str4("d", "o", "c", "x")
ODT == Str3("o", "d", "t")
Formats == {TXT, DOCX, ODT}

\* The answer compared as typed, capitals and all.
normalized_ext_keeps_case(ext) ==
    LET e == trim(ext)
    IN IF starts_with(e, ".") THEN trim_start_matches(e, ".") ELSE e

normalized_ext(ext) ==
    LET e == to_ascii_lowercase(trim(ext))
    IN IF starts_with(e, ".") THEN trim_start_matches(e, ".") ELSE e

chosen_ext(ext) ==
    IF is_some(ext)
    THEN IF normalized_ext(unwrap(ext)) \in Formats THEN normalized_ext(unwrap(ext)) ELSE TXT
    ELSE TXT

needs_ext(base_name) == ~contains(base_name, ".")

named(base_name, ext) ==
    IF needs_ext(base_name) THEN base_name \o Str1(".") \o chosen_ext(ext) ELSE base_name

\* A save that reports what document.save() would return and never calls it.
save_write_reports_only(e, io_ok) ==
    IF document_save_ok(e.document, io_ok)
    THEN [set_status(e, SAVED) EXCEPT !.disk = Some(File(e.document)), !.saved = "ok"]
    ELSE [set_status(e, WRITE_ERROR) EXCEPT !.saved = "failed"]

\* save() from the write on: document.save() and the status it reports.
save_write(e, io_ok) ==
    IF document_save_ok(e.document, io_ok)
    THEN [set_status(e, SAVED) EXCEPT
            !.document = document_save(e.document, io_ok),
            !.disk = Some(File(e.document)),
            !.saved = "ok"]
    ELSE [set_status(e, WRITE_ERROR) EXCEPT !.saved = "failed"]

save_aborted(e) == [set_status(e, ABORTED) EXCEPT !.saved = "aborted"]

\* save() once the prompts are answered: the name is stored, then written.
save_as(e, base_name, ext, io_ok) ==
    save_write([e EXCEPT !.document.file_name = Some(named(base_name, ext))], io_ok)

save(e, caller, io_ok) ==
    IF is_none(e.document.file_name)
    THEN Blocks(e, [NoCall EXCEPT !.prompt = PROMPT_NAME, !.caller = caller])
    ELSE Done(save_write(e, io_ok))

\* ----------------------------------------------------------------- search
search(e) ==
    Blocks(e, [NoCall EXCEPT !.prompt = PROMPT_SEARCH, !.caller = "ctrl_f",
                             !.old_position = e.cursor_position])

search_direction(code) == IF code \in {"Left", "Up"} THEN "Backward" ELSE "Forward"

\* A callback that looks for the next match from where the cursor is.
search_callback_in_place(e, code, query) ==
    LET found == document_find(e.document, query, e.cursor_position, search_direction(code))
        e2 == IF is_some(found)
              THEN scroll([e EXCEPT !.cursor_position = unwrap(found)])
              ELSE e
    IN [e2 EXCEPT !.highlighted_word = Some(query)]

\* The closure search() hands to prompt().
search_callback(e, code, query) ==
    LET moved == code \in {"Right", "Down"}
        e1 == IF moved THEN move_cursor(e, "Right") ELSE e
        found == document_find(e1.document, query, e1.cursor_position, search_direction(code))
        e2 == IF is_some(found)
              THEN scroll([e1 EXCEPT !.cursor_position = unwrap(found)])
              ELSE IF moved THEN move_cursor(e1, "Left") ELSE e1
    IN [e2 EXCEPT !.highlighted_word = Some(query)]

\* A search that ends where it is, cancelled or not.
search_end_stays(e, query, old_position) == [e EXCEPT !.highlighted_word = None]

\* search() after prompt() returned query.
search_end(e, query, old_position) ==
    LET e1 == IF is_none(query) THEN scroll([e EXCEPT !.cursor_position = old_position]) ELSE e
    IN [e1 EXCEPT !.highlighted_word = None]

\* --------------------------------------------------------------- commands
quit_refused(e) == e.quit_times > 0 /\ is_dirty(e.document)

execute_q(e) ==
    IF quit_refused(e)
    THEN [set_status(e, WARNING) EXCEPT !.quit_times = @ - 1]
    ELSE [e EXCEPT !.should_quit = TRUE]

\* A force quit that asks like the plain one.
execute_force_quit_guarded(e) == execute_q(e)

execute_force_quit(e) == [e EXCEPT !.should_quit = TRUE]

\* What follows self.save() in the "wq" arm.
execute_wq_after_save(e) == [e EXCEPT !.should_quit = TRUE]

execute_command(e0, cmd, io_ok) ==
    LET e == [e0 EXCEPT !.command = Some(cmd)]
        c == trim(cmd)
    IN IF c \in {Str4("h", "e", "l", "p"), Str1("h"), Str1("?")}
       THEN Done(set_status(e, HELP_COMMAND))
       ELSE IF c = Str1("q") THEN Done(execute_q(e))
       ELSE IF c = Str2("q", "!") THEN Done(execute_force_quit(e))
       ELSE IF c = Str1("w") THEN save(e, "w", io_ok)
       ELSE IF c = Str2("w", "q")
            THEN LET o == save(e, "wq", io_ok)
                 IN IF o.next = "done" THEN Done(execute_wq_after_save(o.e)) ELSE o
       ELSE Done(set_status(e, UnknownCommand(cmd)))

\* ------------------------------------------------------------- keypresses
\* An Enter that moves down a row and keeps the column.
insert_line_break_keeps_column(e, oob) ==
    [e EXCEPT !.document = document_insert(@, e.cursor_position, "\n", oob),
              !.cursor_position = Position(e.cursor_position.x, e.cursor_position.y + 1)]

insert_line_break(e, oob) ==
    [e EXCEPT !.document = document_insert(@, e.cursor_position, "\n", oob),
              !.cursor_position = Position(0, e.cursor_position.y + 1)]

\* A character inserted with the cursor left where it was.
insert_char_stays(e, c, oob) ==
    [e EXCEPT !.document = document_insert(@, e.cursor_position, c, oob)]

insert_char(e, c, oob) ==
    move_cursor([e EXCEPT !.document = document_insert(@, e.cursor_position, c, oob)], "Right")

delete_forward(e) == [e EXCEPT !.document = document_delete(@, e.cursor_position)]

\* A Backspace that deletes where the cursor is.
backspace_in_place(e) ==
    IF is_some(e.command_buffer)
    THEN [e EXCEPT !.command_buffer = Some(SubSeq(unwrap(@), 1, Len(unwrap(@)) - 1))]
    ELSE IF e.cursor_position.x > 0 \/ e.cursor_position.y > 0
         THEN delete_forward(e)
         ELSE e

backspace(e) ==
    IF is_some(e.command_buffer)
    THEN [e EXCEPT !.command_buffer = Some(SubSeq(unwrap(@), 1, Len(unwrap(@)) - 1))]
    ELSE IF e.cursor_position.x > 0 \/ e.cursor_position.y > 0
         THEN delete_forward(move_cursor(e, "Left"))
         ELSE e

\* The match on pressed_key in process_keypress, arm by arm.
keypress_match(e, key, io_ok, oob) ==
    IF key.code = "Char" /\ key.ch = "s" /\ key.ctrl
    THEN save(e, "ctrl_s", io_ok)
    ELSE IF key.code = "Char" /\ key.ch = "f" /\ key.ctrl /\ is_none(e.command_buffer)
    THEN search(e)
    ELSE IF key.code = "Enter"
    THEN IF is_some(e.command_buffer)
         THEN execute_command([e EXCEPT !.command_buffer = None], unwrap(e.command_buffer), io_ok)
         ELSE Done(insert_line_break(e, oob))
    ELSE IF key.code = "Char" /\ key.ch = ":" /\ is_none(e.command_buffer)
    THEN Done([e EXCEPT !.command_buffer = Some(<<>>)])
    ELSE IF key.code = "Char"
    THEN IF is_some(e.command_buffer)
         THEN Done([e EXCEPT !.command_buffer = Some(Append(unwrap(@), key.ch))])
         ELSE Done(insert_char(e, key.ch, oob))
    ELSE IF key.code = "Esc" THEN Done([e EXCEPT !.command_buffer = None])
    ELSE IF key.code = "Delete" THEN Done(delete_forward(e))
    ELSE IF key.code = "Backspace" THEN Done(backspace(e))
    ELSE IF key.code \in MotionCodes THEN Done(move_cursor(e, key.code))
    ELSE Done(e)

\* A counter that is never restored.
restore_quit_times_never(e) == e

\* A restore that also runs when the counter is whole, clearing the status.
restore_quit_times_always(e) == [set_status(e, EMPTY) EXCEPT !.quit_times = QUIT_TIMES]

restore_quit_times(e) ==
    IF e.quit_times < QUIT_TIMES
    THEN [set_status(e, EMPTY) EXCEPT !.quit_times = QUIT_TIMES]
    ELSE e

\* The end of process_keypress, after the match.
after_keypress(e) == restore_quit_times(scroll(e))

\* What is left of process_keypress when prompt() returns to save or search.
resume(e, caller) ==
    after_keypress(IF caller = "wq" THEN execute_wq_after_save(e) ELSE e)

process_keypress(e, key, io_ok, oob) ==
    LET o == keypress_match(e, key, io_ok, oob)
    IN IF o.next = "done" THEN Done(after_keypress(o.e)) ELSE o

\* ----------------------------------------------------------------- prompt
\* Esc that leaves the text typed so far in place.
prompt_result_esc_keeps(result, key) ==
    IF key.code = "Backspace" THEN SubSeq(result, 1, saturating_sub(Len(result), 1))
    ELSE IF key.code = "Char" THEN Append(result, key.ch)
    ELSE result

prompt_result(result, key) ==
    IF key.code = "Backspace" THEN SubSeq(result, 1, saturating_sub(Len(result), 1))
    ELSE IF key.code = "Char" THEN Append(result, key.ch)
    ELSE IF key.code = "Esc" THEN <<>>
    ELSE result

prompt_breaks(key) == key.code \in {"Enter", "Esc"}

prompt_return(result) == IF result = <<>> THEN None ELSE Some(result)

\* save() and search() from the point where prompt() returned ret.
prompt_returned(e, c, ret, io_ok) ==
    IF c.prompt = PROMPT_NAME
    THEN IF is_none(ret)
         THEN Done(resume(save_aborted(e), c.caller))
         ELSE IF needs_ext(unwrap(ret))
              THEN Blocks(e, [c EXCEPT !.prompt = PROMPT_EXT, !.result = <<>>,
                                       !.base_name = unwrap(ret)])
              ELSE Done(resume(save_as(e, unwrap(ret), None, io_ok), c.caller))
    ELSE IF c.prompt = PROMPT_EXT
    THEN Done(resume(save_as(e, c.base_name, ret, io_ok), c.caller))
    ELSE Done(resume(search_end(e, ret, c.old_position), c.caller))

\* One turn of prompt()'s loop from the key it read.
prompt_key(e, c, key, io_ok) ==
    LET result == prompt_result(c.result, key)
    IN IF prompt_breaks(key)
       THEN prompt_returned(set_status(e, EMPTY), c, prompt_return(result), io_ok)
       ELSE Blocks(IF c.prompt = PROMPT_SEARCH THEN search_callback(e, key.code, result) ELSE e,
                   [c EXCEPT !.result = result])

\* ----------------------------------------------------------------- redraw
GOODBYE == <<"Come Again!.", <<>> >>

message_bar(e) ==
    IF is_some(e.command_buffer) THEN <<":", unwrap(e.command_buffer)>>
    ELSE IF ~e.status_message.expired THEN e.status_message.text
    ELSE EMPTY

terminal_cursor(e) ==
    IF is_some(e.command_buffer)
    THEN Position(Len(unwrap(e.command_buffer)) + 1, e.terminal.height + 1)
    ELSE Position(saturating_sub(e.cursor_position.x, e.offset.x),
                  saturating_sub(e.cursor_position.y, e.offset.y))

\* What refresh_screen draws: the message bar and where it leaves the
\* terminal's cursor.
refresh_screen(e) ==
    IF e.should_quit
    THEN [message |-> GOODBYE, cursor |-> Position(0, 0)]
    ELSE [message |-> message_bar(e), cursor |-> terminal_cursor(e)]

\* ----------------------------------------------------------------- inputs
Controls ==
    {Key("Enter"), Key("Esc"), Key("Delete"), Key("Backspace"), Key("Tab")}
        \cup {Key(m) : m \in MotionCodes}
Chars(cs) == {Char(c) : c \in cs}

\* Whether the key inserts into the document (the Enter and Char arms with no
\* command buffer open).
inserts(e, key) ==
    /\ is_none(e.command_buffer)
    /\ \/ key.code = "Enter"
       \/ /\ key.code = "Char"
          /\ key.ch # ":"
          /\ ~(key.ctrl /\ key.ch \in {"s", "f"})

inserted_char(key) == IF key.code = "Enter" THEN "\n" ELSE key.ch

Prefixes(texts) == UNION {{SubSeq(t, 1, n) : n \in 0..Len(t)} : t \in texts}

\* The command lines that are typed, a character at a time: each command of
\* execute_command, one with blanks round it, and unknown ones.
TypedCommands ==
    {Str1("q"), Str2("q", "!"), Str1("w"), Str2("w", "q"), Str3(" ", "q", " "),
     Str1("h"), Str1("?"), Str4("h", "e", "l", "p"), Str1("!"), Str2("q", "q"),
     Str4("s", "a", "v", "e")}

\* The model's bounds on what is typed: the document stays within MaxRows and
\* MaxChars, the cursor within MaxRows + 1 rows, the command buffer within
\* the typed commands, a prompt's answer within MaxText (the format prompt's
\* within MaxAnswer).
Offered(e, key, oob) ==
    /\ inserts(e, key) =>
          /\ InsertFits(e.document, e.cursor_position, inserted_char(key), oob)
          /\ key.code = "Enter" => e.cursor_position.y <= MaxRows
    /\ (is_some(e.command_buffer) /\ key.code = "Char" /\ ~(key.ctrl /\ key.ch = "s"))
          => Append(unwrap(e.command_buffer), key.ch) \in Prefixes(TypedCommands)

\* The answers to the format prompt: every text of at most MaxAnswer
\* characters over AnswerAlphabet, and the typed answers, a character at a
\* time.
AnswerAlphabet == {"o", "d", "t", "O", ".", " "}
TypedAnswers ==
    {Str3("t", "x", "t"), Str4("d", "o", "c", "x"), Str4("D", "O", "C", "X"),
     Str3("p", "d", "f"), Str3("x", "x", "x"),
     <<" ", ".", ".", "o", "D", "t", " ", " ">>, <<".", " ", "o", "d", "t">>,
     <<".", "d", "o", "c", "x", ".">>, <<"o", "d", "t", "x">>}

AnswerFits(t) ==
    \/ Len(t) <= MaxAnswer /\ \A i \in 1..Len(t) : t[i] \in AnswerAlphabet
    \/ t \in Prefixes(TypedAnswers)

OfferedInPrompt(c, key) ==
    key.code = "Char" =>
        IF c.prompt = PROMPT_EXT
        THEN AnswerFits(Append(c.result, key.ch))
        ELSE Len(c.result) < MaxText

OobChoices(e, key) ==
    IF inserts(e, key) /\ e.cursor_position.y >= Len(e.document.rows)
    THEN OutOfRange
    ELSE {"ignore"}

IoChoices(e, key) ==
    IF key = Ctrl("s") \/ (key.code = "Enter" /\ is_some(e.command_buffer))
    THEN BOOLEAN
    ELSE {TRUE}

\* Whether five seconds pass while the thread waits for the key.
Elapses(e) == IF e.status_message.expired THEN {FALSE} ELSE BOOLEAN

\* ---------------------------------------------------------------- actions
\* run(): the redraw at the top of the loop (it draws refresh_screen(Self)
\* and changes nothing), and the exit after it.  process_keypress has
\* returned: its locals are gone.
RefreshScreen ==
    /\ pc = "refresh"
    /\ pc' = IF should_quit THEN "exited" ELSE "read_key"
    /\ command' = None
    /\ saved' = "none"
    /\ UNCHANGED <<terminal, should_quit, cursor_position, offset, document,
                   status_message, quit_times, highlighted_word, command_buffer,
                   disk, call, glob>>

\* run(): process_keypress, from the key it reads to its return or to the
\* first prompt() it blocks in.
ProcessKeypress(keys) ==
    /\ pc = "read_key"
    /\ \E key \in keys :
       \E elapsed \in Elapses(Self), io_ok \in IoChoices(Self, key),
          oob \in OobChoices(Self, key) :
          /\ Offered(Self, key, oob)
          /\ LET e == [Self EXCEPT !.status_message.expired = @ \/ elapsed,
                                   !.command = None, !.saved = "none"]
                 o == process_keypress(e, key, io_ok, oob)
             IN /\ Becomes(o.e)
                /\ call' = o.call
                /\ pc' = IF o.next = "done" THEN "refresh" ELSE "prompt_refresh"

\* prompt(): the top of its loop, the status line and the redraw.
PromptRefresh ==
    /\ pc = "prompt_refresh"
    /\ status_message' = StatusMessage(PromptText(call.prompt, call.result))
    /\ pc' = "prompt_read"
    /\ UNCHANGED <<terminal, should_quit, cursor_position, offset, document,
                   quit_times, highlighted_word, command_buffer, disk, call,
                   command, saved, glob>>

\* prompt(): the key it reads, the callback, and on Enter or Esc the rest of
\* save or search and of process_keypress, up to the next blocking read.
PromptKey(keys) ==
    /\ pc = "prompt_read"
    /\ \E key \in keys :
       \E io_ok \in BOOLEAN :
          /\ OfferedInPrompt(call, key)
          /\ LET o == prompt_key(Self, call, key, io_ok)
             IN /\ Becomes(o.e)
                /\ call' = o.call
                /\ pc' = IF o.next = "done" THEN "refresh" ELSE "prompt_refresh"

\* ------------------------------------------------------------------- Init
FILE_NAME == <<"n", ".", "t", "x", "t">>

Sizes(ws, hs) == {[width |-> w, height |-> h] : w \in ws, h \in hs}

\* The command line: no file, a file that cannot be opened, or a file that
\* holds these lines.
NoFile == [opens |-> "none", lines |-> <<>>]
BadFile == [opens |-> "fails", lines |-> <<>>]
GoodFile(lines) == [opens |-> "ok", lines |-> lines]

\* The fields Editor::default gives the editor, over the terminal sizes and
\* the command lines given.
EditorFields(sizes, args) ==
    /\ terminal \in sizes
    /\ \E arg \in args :
          IF arg.opens = "ok"
          THEN /\ document = document_open(FILE_NAME, arg.lines)
               /\ status_message = StatusMessage(HELP_INITIAL)
               /\ disk = Some(File(document))
          ELSE /\ document = document_default
               /\ status_message =
                     StatusMessage(IF arg.opens = "fails" THEN ErrOpen(FILE_NAME) ELSE HELP_INITIAL)
               /\ disk = None
    /\ should_quit = FALSE
    /\ cursor_position = Position(0, 0)
    /\ offset = Position(0, 0)
    /\ quit_times = QUIT_TIMES
    /\ highlighted_word = None
    /\ command_buffer = None
    /\ pc = "refresh"
    /\ call = NoCall
    /\ command = None
    /\ saved = "none"

\* Editor::default when it has returned: Document::open and its
\* FileType::from are over.
EditorDefault(sizes, args) == EditorFields(sizes, args) /\ glob = NoGlob

\* ------------------------------------------ Spec: editing, motion, search
\* Keys offered: every control key, Ctrl-F, one printable character and ':'
\* while editing; the control keys while the command buffer is open; in the
\* search prompt the character, Backspace, the arrows, Enter and Esc.
EditKeys ==
    IF is_some(command_buffer) THEN Controls
    ELSE Controls \cup {Ctrl("f")} \cup Chars({"a", ":"})

EditPromptKeys ==
    {Key("Enter"), Key("Esc"), Key("Backspace"), Char("a"),
     Key("Left"), Key("Right"), Key("Up"), Key("Down")}

Init == EditorDefault(Sizes(1..MaxSize, 1..MaxSize), {NoFile, GoodFile(<< <<"a">>, <<>> >>)})

Next ==
    \/ RefreshScreen
    \/ ProcessKeypress(EditKeys)
    \/ PromptRefresh
    \/ PromptKey(EditPromptKeys)

Spec == Init /\ [][Next]_vars

\* ------------------------------------------- SpecCmd: commands and saving
\* Keys offered: while editing, one printable character, Backspace, ':' and
\* Ctrl-S; in the command buffer the characters of the commands, the control
\* keys and Ctrl-S; in the prompts of save one character, Enter and Esc
\* (and Backspace in the name prompt).
CmdKeys ==
    IF is_some(command_buffer)
    THEN {Key("Enter"), Key("Esc"), Key("Backspace"), Key("Delete"), Key("Left"), Ctrl("s")}
            \cup Chars({"q", "w", "!", "h", "?", " "})
    ELSE {Key("Backspace"), Ctrl("s")} \cup Chars({"a", ":"})

CmdPromptKeys ==
    IF call.prompt = PROMPT_NAME
    THEN {Key("Enter"), Key("Esc"), Key("Backspace"), Char("n")}
    ELSE {Key("Enter"), Key("Esc"), Char("x")}

InitCmd == EditorDefault(Sizes({MaxSize}, {MaxSize}), {NoFile, BadFile, GoodFile(<< <<"a">> >>)})

NextCmd ==
    \/ RefreshScreen
    \/ ProcessKeypress(CmdKeys)
    \/ PromptRefresh
    \/ PromptKey(CmdPromptKeys)

SpecCmd == InitCmd /\ [][NextCmd]_vars

\* ------------------------------------------ SpecSave: the prompts of save
\* Keys offered: while editing, one printable character and Ctrl-S; in the
\* name prompt a letter, '.', Backspace, Enter and Esc; in the format
\* prompt the characters of the answers, Backspace, Enter and Esc.
SaveKeys == {Ctrl("s"), Char("a")}

SavePromptKeys ==
    {Key("Enter"), Key("Esc"), Key("Backspace")}
        \cup (IF call.prompt = PROMPT_NAME
              THEN Chars({"n", "."})
              ELSE Chars(AnswerAlphabet \cup {"x", "c", "D", "C", "X", "p", "f"}))

InitSave == EditorDefault(Sizes({MaxSize}, {MaxSize}), {NoFile})

NextSave ==
    \/ RefreshScreen
    \/ ProcessKeypress(SaveKeys)
    \/ PromptRefresh
    \/ PromptKey(SavePromptKeys)

SpecSave == InitSave /\ [][NextSave]_vars

\* --------------------------------------- SpecDoc: the rows of the document
\* Keys offered: every control key and one printable character, on a new
\* document, on an empty file and on a file of two lines.
DocKeys == Controls \cup {Char("a")}

InitDoc ==
    EditorDefault(Sizes({MaxSize}, {MaxSize}),
                  {NoFile, GoodFile(<<>>), GoodFile(<< <<"a">>, <<>> >>)})

NextDoc ==
    \/ RefreshScreen
    \/ ProcessKeypress(DocKeys)

SpecDoc == InitDoc /\ [][NextDoc]_vars

\* ------------------------------------------ SpecDirty: edits and saves
\* Keys offered: while editing, one printable character, Enter, Backspace,
\* Delete and Ctrl-S; in the name prompt a letter, Enter and Esc; in the
\* format prompt Enter and Esc.
DirtyKeys ==
    {Key("Enter"), Key("Backspace"), Key("Delete"), Ctrl("s"), Char("a")}

DirtyPromptKeys ==
    IF call.prompt = PROMPT_NAME
    THEN {Key("Enter"), Key("Esc"), Char("n")}
    ELSE {Key("Enter"), Key("Esc")}

InitDirty == EditorDefault(Sizes({MaxSize}, {MaxSize}), {NoFile, GoodFile(<< <<"a">> >>)})

NextDirty ==
    \/ RefreshScreen
    \/ ProcessKeypress(DirtyKeys)
    \/ PromptRefresh
    \/ PromptKey(DirtyPromptKeys)

SpecDirty == InitDirty /\ [][NextDirty]_vars

\* ------------------------------------------------- SpecSearch: searching
\* Keys offered: while editing, the arrows, End and Ctrl-F, on a file of
\* three lines of which the first and the last are alike; in the search
\* prompt the characters of the file, Backspace, the arrows, Enter and Esc.
SEARCH_LINES == << <<"a", "p">>, <<"b">>, <<"a", "p">> >>

SearchKeys ==
    {Key("Up"), Key("Down"), Key("Left"), Key("Right"), Key("End"), Ctrl("f")}

SearchPromptKeys ==
    {Key("Enter"), Key("Esc"), Key("Backspace"),
     Key("Left"), Key("Right"), Key("Up"), Key("Down")} \cup Chars({"a", "p", "b"})

InitSearch == EditorDefault(Sizes({MaxSize}, {MaxSize}), {GoodFile(SEARCH_LINES)})

NextSearch ==
    \/ RefreshScreen
    \/ ProcessKeypress(SearchKeys)
    \/ PromptRefresh
    \/ PromptKey(SearchPromptKeys)

SpecSearch == InitSearch /\ [][NextSearch]_vars

\* ------------------------------------------- SpecLine: the command line
\* Keys offered: while editing, one printable character and ':'; in the
\* command buffer the characters of w, save and help, Backspace, Enter and
\* Esc; in the prompts of save a letter, Enter and Esc.
LineKeys ==
    IF is_some(command_buffer)
    THEN {Key("Enter"), Key("Esc"), Key("Backspace")}
            \cup Chars({"w", "s", "a", "v", "e", "h", "l", "p"})
    ELSE Chars({"a", ":"})

LinePromptKeys == {Key("Enter"), Key("Esc"), Char("n")}

InitLine == EditorDefault(Sizes({MaxSize}, {MaxSize}), {NoFile, GoodFile(<< <<"a">> >>)})

NextLine ==
    \/ RefreshScreen
    \/ ProcessKeypress(LineKeys)
    \/ PromptRefresh
    \/ PromptKey(LinePromptKeys)

SpecLine == InitLine /\ [][NextLine]_vars

\* ------------------------------------------------- SpecGlob: matches_glob
\* FileType::from's wildcard matcher, a loop turn or a return at a time.
\* Patterns and names are the texts within MaxPattern and MaxName
\* characters over an ordinary character and the two wildcards (names: a
\* second ordinary character too).  p[pi] of the source is p[pi + 1] here.
PatternChars == {"a", "*", "?"}
NameChars == {"a", "b", "*", "?"}

RECURSIVE Texts(_, _)
Texts(chars, n) ==
    IF n = 0 THEN {<<>>}
    ELSE LET shorter == Texts(chars, n - 1)
         IN shorter \cup {Append(text, c) : text \in shorter, c \in chars}

\* helper(p, t) entered: its locals as declared.
helper_enter(p, t) ==
    [p |-> p, t |-> t, pi |-> 0, ti |-> 0, star |-> None, match_t |-> 0,
     at |-> "scan", ret |-> None]

\* pi < p.len() && (p[pi] == b'?' || p[pi] == t[ti])
matches_one(g) ==
    g.pi < Len(g.p) /\ (g.p[g.pi + 1] = "?" \/ g.p[g.pi + 1] = g.t[g.ti + 1])

\* pi < p.len() && p[pi] == b'*'
at_star(g) == g.pi < Len(g.p) /\ g.p[g.pi + 1] = "*"

editor ==
    <<terminal, should_quit, cursor_position, offset, document, status_message,
      quit_times, highlighted_word, command_buffer, disk, pc, call, command, saved>>

\* The first loop, first branch: the pattern's character takes the name's.
HelperAdvance ==
    /\ glob.at = "scan"
    /\ glob.ti < Len(glob.t)
    /\ matches_one(glob)
    /\ glob' = [glob EXCEPT !.pi = @ + 1, !.ti = @ + 1]
    /\ UNCHANGED editor

\* The first loop, second branch: a star is recorded and stepped over.
HelperStar ==
    /\ glob.at = "scan"
    /\ glob.ti < Len(glob.t)
    /\ ~matches_one(glob)
    /\ at_star(glob)
    /\ glob' = [glob EXCEPT !.star = Some(glob.pi), !.match_t = glob.ti, !.pi = @ + 1]
    /\ UNCHANGED editor

\* The first loop, third branch: back to the last star, which takes one
\* character more.
HelperBacktrack ==
    /\ glob.at = "scan"
    /\ glob.ti < Len(glob.t)
    /\ ~matches_one(glob)
    /\ ~at_star(glob)
    /\ is_some(glob.star)
    /\ glob' = [glob EXCEPT !.pi = unwrap(glob.star) + 1, !.match_t = @ + 1,
                            !.ti = glob.match_t + 1]
    /\ UNCHANGED editor

\* The first loop, last branch: return false.
HelperMismatch ==
    /\ glob.at = "scan"
    /\ glob.ti < Len(glob.t)
    /\ ~matches_one(glob)
    /\ ~at_star(glob)
    /\ is_none(glob.star)
    /\ glob' = [glob EXCEPT !.at = "returned", !.ret = Some(FALSE)]
    /\ UNCHANGED editor

\* The first loop ends: the name is used up.
HelperScanned ==
    /\ glob.at = "scan"
    /\ glob.ti >= Len(glob.t)
    /\ glob' = [glob EXCEPT !.at = "skip"]
    /\ UNCHANGED editor

\* The second loop: a trailing star is stepped over.
HelperSkipStar ==
    /\ glob.at = "skip"
    /\ at_star(glob)
    /\ glob' = [glob EXCEPT !.pi = @ + 1]
    /\ UNCHANGED editor

\* The second loop ends: return pi == p.len().
HelperReturn ==
    /\ glob.at = "skip"
    /\ ~at_star(glob)
    /\ glob' = [glob EXCEPT !.at = "returned", !.ret = Some(glob.pi = Len(glob.p))]
    /\ UNCHANGED editor

\* matches_glob is a function of its two arguments alone: the editor's
\* fields stay as Editor::default sets them.
InitGlob ==
    /\ EditorFields(Sizes({MaxSize}, {MaxSize}), {GoodFile(<<>>)})
    /\ \E p \in Texts(PatternChars, MaxPattern), t \in Texts(NameChars, MaxName) :
          glob = helper_enter(p, t)

NextGlob ==
    \/ HelperAdvance
    \/ HelperStar
    \/ HelperBacktrack
    \/ HelperMismatch
    \/ HelperScanned
    \/ HelperSkipStar
    \/ HelperReturn

SpecGlob == InitGlob /\ [][NextGlob]_vars

\* ====================================================== claims: commands
ran(cmd) == is_some(command) /\ trim(unwrap(command)) = cmd

\* C1: when process_keypress returns from the command q, should_quit is set
\* if and only if the document is not dirty; a dirty document refuses q each
\* time it is entered, until it is saved.
C1_QuitIffClean ==
    (pc = "refresh" /\ ran(Str1("q"))) => (should_quit <=> ~is_dirty(document))

C1_Witness ==
    pc = "refresh" /\ ran(Str1("q")) /\ is_dirty(document) /\ ~should_quit

\* C2: when q is refused, the redraw that follows shows the unsaved-changes
\* warning in the message bar.
C2_WarningShown ==
    (pc = "refresh" /\ ran(Str1("q")) /\ ~should_quit)
        => refresh_screen(Self).message = WARNING

\* C3: the command q! sets should_quit whether or not the document is dirty,
\* saves nothing and leaves the document as it was; once should_quit is set
\* the loop reads no further key and exits at its next redraw.
C3_ForceQuit ==
    /\ [][ran(Str2("q", "!"))' =>
            /\ should_quit'
            /\ document' = document
            /\ disk' = disk
            /\ saved' = "none"]_vars
    /\ [](should_quit => pc \in {"refresh", "exited"})
    /\ [][(should_quit /\ pc = "refresh") => pc' = "exited"]_vars

C3_Witness ==
    pc = "refresh" /\ ran(Str2("q", "!")) /\ is_dirty(document) /\ should_quit

\* C4: after the command wq, should_quit is set only if the save wrote the
\* file.
C4_WqQuitsOnlySaved ==
    (pc = "refresh" /\ ran(Str2("w", "q")) /\ should_quit) => saved = "ok"

\* C5: a save whose write fails reports the failure in the status message and
\* leaves rows, dirty flag and file identity as they were.
C5_FailedSaveChangesNothing ==
    [][(saved' = "failed" /\ saved # "failed") =>
            /\ status_message'.text = WRITE_ERROR
            /\ document' = document
            /\ disk' = disk]_vars

\* ================================================= claims: save prompts
in_prompt(prompt) == pc = "prompt_read" /\ call.prompt = prompt

\* C6: Esc in the base-name prompt or in the format prompt aborts the save:
\* nothing is written, the status is "aborted", and the document keeps no
\* file identity and its dirty flag.
C6_CancelAborts ==
    (in_prompt(PROMPT_NAME) \/ in_prompt(PROMPT_EXT)) =>
        \A io_ok \in BOOLEAN :
            LET o == prompt_key(Self, call, Key("Esc"), io_ok)
            IN /\ o.next = "done"
               /\ o.e.saved = "aborted"
               /\ o.e.status_message.text = ABORTED
               /\ o.e.document = document
               /\ o.e.disk = disk

\* C6 as amended: Esc in the base-name prompt aborts the save as above; Esc
\* in the format prompt does not: the document is named base.txt and the
\* write is attempted.
C6_CancelNameAborts ==
    /\ in_prompt(PROMPT_NAME) =>
        \A io_ok \in BOOLEAN :
            LET o == prompt_key(Self, call, Key("Esc"), io_ok)
            IN /\ o.next = "done"
               /\ o.e.saved = "aborted"
               /\ o.e.status_message.text = ABORTED
               /\ o.e.document = document
               /\ is_none(o.e.document.file_name)
               /\ o.e.disk = disk
    /\ in_prompt(PROMPT_EXT) =>
        \A io_ok \in BOOLEAN :
            LET o == prompt_key(Self, call, Key("Esc"), io_ok)
            IN /\ o.next = "done"
               /\ o.e.document.file_name = Some(call.base_name \o Str1(".") \o TXT)
               /\ o.e.saved = IF io_ok THEN "ok" ELSE "failed"
               /\ io_ok => o.e.disk = Some([name |-> call.base_name \o Str1(".") \o TXT,
                                           rows |-> document.rows])

C6_Witness ==
    /\ pc = "refresh"
    /\ saved = "aborted"
    /\ status_message.text = ABORTED
    /\ is_dirty(document)
    /\ is_none(document.file_name)

\* An answer names format f when it is f in any mix of capitals, after any
\* blanks and then any dots, and before any blanks.
Capital(c) ==
    CASE c = "t" -> "T"
      [] c = "x" -> "X"
      [] c = "o" -> "O"
      [] c = "d" -> "D"
      [] c = "c" -> "C"
      [] OTHER -> c

NamesFormat(answer, f) ==
    \E a \in 0..Len(answer), b \in 0..Len(answer), c \in 0..Len(answer) :
        /\ a <= b /\ b <= c
        /\ \A i \in 1..a : answer[i] = " "
        /\ \A i \in (a + 1)..b : answer[i] = "."
        /\ \A i \in (c + 1)..Len(answer) : answer[i] = " "
        /\ c - b = Len(f)
        /\ \A i \in 1..Len(f) : answer[b + i] \in {f[i], Capital(f[i])}

ExpectedExt(key, answer) ==
    IF key.code = "Enter" /\ \E f \in Formats : NamesFormat(answer, f)
    THEN CHOOSE f \in Formats : NamesFormat(answer, f)
    ELSE TXT

\* C7: a non-empty base name without '.' leads to the format prompt, and the
\* file name becomes base.ext, ext being the format the answer names and txt
\* when the answer is empty, cancelled or names none of txt, docx, odt; a
\* base name with a '.' is used as it is, with no second prompt.
C7_FileNameFromPrompts ==
    /\ (in_prompt(PROMPT_NAME) /\ call.result # <<>>) =>
        \A io_ok \in BOOLEAN :
            LET o == prompt_key(Self, call, Key("Enter"), io_ok)
            IN IF \E i \in 1..Len(call.result) : call.result[i] = "."
               THEN /\ o.next = "done"
                    /\ o.e.document.file_name = Some(call.result)
               ELSE /\ o.next = "prompt"
                    /\ o.call.prompt = PROMPT_EXT
                    /\ o.call.result = <<>>
                    /\ o.call.base_name = call.result
                    /\ is_none(o.e.document.file_name)
    /\ in_prompt(PROMPT_EXT) =>
        \A io_ok \in BOOLEAN, key \in {Key("Enter"), Key("Esc")} :
            LET o == prompt_key(Self, call, key, io_ok)
            IN /\ o.next = "done"
               /\ ExpectedExt(key, call.result) \in Formats
               /\ o.e.document.file_name =
                    Some(call.base_name \o Str1(".") \o ExpectedExt(key, call.result))

C7_Witness ==
    /\ pc = "refresh"
    /\ saved = "ok"
    /\ document.file_name = Some(<<"n", ".", "o", "d", "t">>)
    /\ disk = Some(File(document))

\* ===================================================== claims: geometry
\* C8: when process_keypress returns, the cursor is on a row of the document
\* and within it: 0 <= y < row_count and 0 <= x <= length of row y.
C8_CursorValid ==
    pc = "refresh" =>
        /\ cursor_position.y < document_len(document)
        /\ cursor_position.x <= row_len(Self, cursor_position.y)

\* C9: at every redraw, in the main loop and inside prompt(), on a terminal
\* of width and height at least 1, the cursor is inside the viewport.
C9_CursorVisible ==
    (pc \in {"read_key", "prompt_read"} /\ terminal.width >= 1 /\ terminal.height >= 1) =>
        /\ offset.y <= cursor_position.y
        /\ cursor_position.y < offset.y + terminal.height
        /\ offset.x <= cursor_position.x
        /\ cursor_position.x < offset.x + terminal.width

\* C10: the document always has at least one row, as created, as loaded and
\* after any inserts and deletes; a document of no characters and no line
\* breaks has exactly one row, and that row is empty.
C10_RowsNonEmpty ==
    /\ document_len(document) >= 1
    /\ document_char_count(document) = 0 => document.rows = << <<>> >>

C10_Witness ==
    /\ pc = "refresh"
    /\ is_dirty(document)
    /\ document.rows = << <<>> >>
    /\ is_some(document.file_name)

\* ================================================= claims: the dirty flag
editing == pc = "read_key" /\ is_none(command_buffer)
on_row == cursor_position.y < document_len(document)

\* The keys that insert while editing: Enter, a character, and a character
\* typed with a modifier that is neither shortcut.
InsertKeys == {Key("Enter"), Char("a"), Ctrl("a")}

\* C11: a loaded document starts with dirty = false; a key that inserts a
\* character or a line break leaves dirty = true; dirty goes from true to
\* false only in a step whose save wrote the file; after such a save dirty
\* is false.
C11_DirtyUntilSaved ==
    /\ is_some(disk) => ~is_dirty(document)
    /\ [](editing =>
            \A key \in InsertKeys, oob \in OutOfRange :
                LET o == process_keypress(Self, key, TRUE, oob)
                IN (on_row \/ o.e.document.rows # document.rows)
                        => is_dirty(o.e.document))
    /\ [][(is_dirty(document) /\ ~is_dirty(document')) => saved' = "ok"]_vars
    /\ [](saved = "ok" => ~is_dirty(document))

C11_Witness ==
    /\ pc = "refresh"
    /\ saved = "ok"
    /\ ~is_dirty(document)
    /\ document.rows # << <<"a">> >>
    /\ document.file_name = Some(FILE_NAME)

\* The rows as last written by a successful save, or as loaded or created
\* when nothing has been saved yet.
saved_rows == IF is_some(disk) THEN unwrap(disk).rows ELSE document_default.rows

\* C12: dirty is true if and only if the rows differ from the rows at the
\* last successful save (or at load).
C12_DirtyIffDiffers == is_dirty(document) <=> document.rows # saved_rows

\* C12 as amended: rows that differ from the rows at the last successful
\* save (or at load) imply dirty; dirty may stay true when the rows are
\* equal again.
C12_DiffersOnlyDirty == document.rows # saved_rows => is_dirty(document)

C12_Witness ==
    /\ pc = "refresh"
    /\ is_some(disk)
    /\ unwrap(disk).rows # << <<"a">> >>
    /\ document.rows # saved_rows
    /\ is_dirty(document)

\* ================================================ claims: insert, delete
\* The positions of a line break in the document: a row and an offset in it.
Offsets(doc) ==
    UNION {{Position(k, y) : k \in 0..Len(doc.rows[y + 1])} : y \in 0..(Len(doc.rows) - 1)}

\* C13: for any row y and offset k, insert((k, y), line break) followed by
\* delete((0, y + 1)) restores the rows.
C13_SplitJoinAtNextRow ==
    \A at \in Offsets(document), oob \in OutOfRange :
        LET split == document_insert(document, at, "\n", oob)
        IN document_delete(split, Position(0, at.y + 1)).rows = document.rows

\* C13 as amended: insert((k, y), line break) makes one row more, and
\* delete((k, y)), at the end of the first part, restores the rows.
C13_SplitJoinAtBreak ==
    \A at \in Offsets(document), oob \in OutOfRange :
        LET split == document_insert(document, at, "\n", oob)
        IN /\ Len(split.rows) = Len(document.rows) + 1
           /\ document_delete(split, at).rows = document.rows

C13_Witness ==
    \E at \in Offsets(document) :
        /\ 0 < at.x /\ at.x < Len(document.rows[at.y + 1])
        /\ Len(document.rows) > 1
        /\ LET split == document_insert(document, at, "\n", "ignore")
           IN /\ split.rows[at.y + 1] # <<>>
              /\ split.rows[at.y + 2] # <<>>
              /\ document_delete(split, at).rows = document.rows

\* The editor after the keys, pressed one after the other while editing.
RECURSIVE typed(_, _)
typed(e, keys) ==
    IF keys = <<>> THEN e
    ELSE typed(process_keypress(e, Head(keys), TRUE, "ignore").e, Tail(keys))

\* C14: with the cursor on a row, a key that inserts followed by Backspace
\* restores the rows and the cursor; "hi" typed into an empty one-row
\* document and one Backspace leave the row "h" and the cursor at column 1.
C14_InsertBackspace ==
    /\ (editing /\ on_row) =>
            \A key \in InsertKeys :
                LET e == typed(Self, <<key, Key("Backspace")>>)
                IN /\ e.document.rows = document.rows
                   /\ e.cursor_position = cursor_position
    /\ (editing /\ document.rows = << <<>> >> /\ cursor_position = Position(0, 0)) =>
            LET e == typed(Self, <<Char("h"), Char("i"), Key("Backspace")>>)
            IN /\ e.document.rows = << <<"h">> >>
               /\ e.cursor_position = Position(1, 0)

C14_Witness ==
    /\ pc = "refresh"
    /\ is_dirty(document)
    /\ document.rows = saved_rows
    /\ document.rows = << <<"a">>, <<>> >>
    /\ cursor_position = Position(1, 0)

\* C15: Enter with the cursor at (x, y) on a row replaces row y by its first
\* x characters, puts the rest in a new row y + 1, keeps the other rows in
\* their order (one row more in all), and leaves the cursor at (0, y + 1).
C15_LineBreakSplits ==
    (editing /\ on_row) =>
        LET x == cursor_position.x
            y == cursor_position.y
            rows == document.rows
            row == rows[y + 1]
            e == typed(Self, <<Key("Enter")>>)
        IN /\ x <= Len(row)
           /\ e.document.rows =
                SubSeq(rows, 1, y)
                    \o << SubSeq(row, 1, x), SubSeq(row, x + 1, Len(row)) >>
                    \o SubSeq(rows, y + 2, Len(rows))
           /\ Len(e.document.rows) = Len(rows) + 1
           /\ e.cursor_position = Position(0, y + 1)

C15_Witness ==
    /\ pc = "refresh"
    /\ document.rows = << <<"a">>, <<"a">> >>
    /\ cursor_position = Position(0, 1)
    /\ is_none(document.file_name)

\* Printable characters as keys: plain, ':' and letters of the shortcuts,
\* and typed with a modifier that makes no shortcut.
ColonKeys == {Char(":"), Ctrl(":")}
PrintableKeys == {Char("a"), Char("s"), Char("f"), Ctrl("a")} \cup ColonKeys

\* The rows with c put in at the cursor.
with_char(c) ==
    LET y == cursor_position.y
        x == cursor_position.x
        row == document.rows[y + 1]
    IN [document.rows EXCEPT ![y + 1] = SubSeq(row, 1, x) \o <<c>> \o SubSeq(row, x + 1, Len(row))]

inserted(e, key) ==
    /\ on_row => e.document.rows = with_char(key.ch)
    /\ e.document.rows # document.rows
    /\ e.cursor_position = Position(cursor_position.x + 1, cursor_position.y)
    /\ is_none(e.command_buffer)

\* C16: while editing, every printable character key, ':' and modified
\* characters other than the shortcuts included, inserts the character at
\* the cursor, advances the cursor by one column and stays in editing.
C16_EveryCharInserts ==
    editing =>
        \A key \in PrintableKeys, oob \in OutOfRange :
            inserted(process_keypress(Self, key, TRUE, oob).e, key)

\* C16 as amended: with the cursor on a row, every printable character key
\* but ':' does so; ':' opens the empty command buffer and leaves rows and
\* cursor as they were.
C16_CharInsertsColonCommands ==
    (editing /\ on_row) =>
        \A key \in PrintableKeys, oob \in OutOfRange :
            LET e == process_keypress(Self, key, TRUE, oob).e
            IN IF key \in ColonKeys
               THEN /\ e.command_buffer = Some(<<>>)
                    /\ e.document = document
                    /\ e.cursor_position = cursor_position
               ELSE inserted(e, key)

C16_Witness ==
    /\ pc = "refresh"
    /\ is_dirty(document)
    /\ document.rows = << <<"a", "a">>, <<>> >>
    /\ cursor_position = Position(1, 0)

\* ======================================================= claims: search
searching == call.prompt = PROMPT_SEARCH /\ pc \in {"prompt_refresh", "prompt_read"}

\* C17: the position recorded when the search is entered is the cursor's;
\* it and the document stay as they are while the search lasts; Esc puts
\* the cursor back on it and leaves the document as it was.
C17_CancelRestores ==
    /\ [][(pc = "read_key" /\ searching') => call'.old_position = cursor_position]_vars
    /\ [][(searching /\ searching') =>
            /\ call'.old_position = call.old_position
            /\ document' = document]_vars
    /\ [](in_prompt(PROMPT_SEARCH) =>
            LET o == prompt_key(Self, call, Key("Esc"), TRUE)
            IN /\ o.next = "done"
               /\ o.e.cursor_position = call.old_position
               /\ o.e.document = document)

C17_Witness ==
    /\ in_prompt(PROMPT_SEARCH)
    /\ Len(call.result) = MaxText
    /\ cursor_position.y # call.old_position.y
    /\ prompt_key(Self, call, Key("Esc"), TRUE).e.cursor_position # cursor_position

\* C18: Enter ends the search with the cursor where the last find of that
\* search put it, never back on the position recorded at its start.
C18_ConfirmKeepsMatch ==
    in_prompt(PROMPT_SEARCH) =>
        LET o == prompt_key(Self, call, Key("Enter"), TRUE)
        IN /\ o.next = "done"
           /\ o.e.cursor_position = cursor_position

\* C19: a key that changes the query runs find from the position recorded
\* when the search was entered: the cursor after the key is the match
\* find(query, start, Forward) returns.
C19_FindFromStart ==
    in_prompt(PROMPT_SEARCH) =>
        \A key \in {Key("Backspace")} \cup Chars({"a", "p", "b"}) :
            LET o == prompt_key(Self, call, key, TRUE)
                found == document_find(document, o.call.result, call.old_position, "Forward")
            IN (o.call.result # call.result /\ is_some(found))
                    => o.e.cursor_position = unwrap(found)

\* The match a forward step from the match at p goes to: the next one after
\* p, and the first of the buffer when p is the last.
next_match(matches, p) ==
    IF {q \in matches : Before(p, q)} # {}
    THEN First({q \in matches : Before(p, q)})
    ELSE First(matches)

ForwardKeys == {Key("Right"), Key("Down")}

\* C20: a forward step from a match goes to the next match and from the
\* last match round to the first: with rows ap, b, ap and query ap, from
\* the match in row 2 to row 0 and from there to row 2 again; when no row
\* holds the query a step finds nothing and the search goes on.
C20_ForwardWraps ==
    (in_prompt(PROMPT_SEARCH) /\ call.result # <<>>) =>
        \A key \in ForwardKeys :
            LET matches == Matches(document, call.result)
                o == prompt_key(Self, call, key, TRUE)
                o2 == prompt_key(o.e, o.call, key, TRUE)
            IN /\ o.next = "prompt"
               /\ o.call.result = call.result
               /\ cursor_position \in matches =>
                    /\ o.e.cursor_position = next_match(matches, cursor_position)
                    /\ o2.e.cursor_position = next_match(matches, o.e.cursor_position)
                    /\ Cardinality(matches) > 1 => o.e.cursor_position # cursor_position
               /\ (document.rows = SEARCH_LINES /\ call.result = <<"a", "p">>
                        /\ cursor_position = Position(0, 2)) =>
                    /\ o.e.cursor_position = Position(0, 0)
                    /\ o2.e.cursor_position = Position(0, 2)
               /\ matches = {} =>
                    /\ is_none(document_find(o.e.document, call.result,
                                              move_cursor(Self, "Right").cursor_position, "Forward"))
                    /\ o.e.document = document
                    /\ o.e.highlighted_word = Some(call.result)

C20_Witness ==
    /\ in_prompt(PROMPT_SEARCH)
    /\ call.result = <<"a", "p">>
    /\ call.old_position = Position(0, 2)
    /\ cursor_position = Position(0, 0)
    /\ highlighted_word = Some(call.result)

\* ================================================= claims: the command line
\* C21: a confirmed command line of w or of save saves the document: when
\* process_keypress has returned, its save() has ended (written, failed or
\* aborted at a prompt), and while it has not returned it is in a prompt of
\* save.
C21_WAndSaveSave ==
    (ran(Str1("w")) \/ ran(Str4("s", "a", "v", "e"))) =>
        IF pc \in {"prompt_refresh", "prompt_read"}
        THEN call.prompt \in {PROMPT_NAME, PROMPT_EXT}
        ELSE saved \in {"ok", "failed", "aborted"}

\* The commands execute_command has an arm for.
Recognised ==
    {Str4("h", "e", "l", "p"), Str1("h"), Str1("?"), Str1("q"), Str2("q", "!"),
     Str1("w"), Str2("w", "q")}

\* C22: Enter on a command buffer whose trimmed text is no command of
\* execute_command ends the keypress with the status "Unknown command: "
\* followed by the text, with rows, dirty flag, file name, file on disk,
\* cursor and should_quit as they were, and the redraw that follows shows
\* that status.
C22_UnknownCommandOnlyStatus ==
    (pc = "read_key" /\ is_some(command_buffer)
        /\ trim(unwrap(command_buffer)) \notin Recognised) =>
        \A io_ok \in BOOLEAN :
            LET o == process_keypress(Self, Key("Enter"), io_ok, "ignore")
            IN /\ o.next = "done"
               /\ o.e.status_message = StatusMessage(UnknownCommand(unwrap(command_buffer)))
               /\ o.e.document = document
               /\ o.e.disk = disk
               /\ o.e.cursor_position = cursor_position
               /\ o.e.should_quit = should_quit
               /\ refresh_screen(o.e).message = UnknownCommand(unwrap(command_buffer))

C22_Witness ==
    /\ pc = "refresh"
    /\ is_some(command)
    /\ trim(unwrap(command)) \notin Recognised
    /\ unwrap(command) # <<>>
    /\ is_dirty(document)
    /\ status_message = StatusMessage(UnknownCommand(unwrap(command)))
    /\ refresh_screen(Self).message = UnknownCommand(unwrap(command))

\* What is pressed between ':' and the Enter or Esc that ends the command
\* line: nothing, or one key that does not end it.
LineSessions ==
    {<<>>} \cup {<<k>> : k \in Chars({"q"}) \cup {Key("Backspace"), Key("Delete")}
                                \cup {Key(m) : m \in MotionCodes}}

\* C23: from Editing, ':' and then any of these keys leave the command
\* buffer open; Enter after them leaves no command buffer; Esc after them
\* leaves no command buffer, dispatches no command, and leaves the document,
\* the cursor and the status message as they were before ':'.
C23_ConfirmAndCancelEndInEditing ==
    editing =>
        \A keys \in LineSessions :
            LET line == typed(Self, <<Char(":")>> \o keys)
                confirm == process_keypress(line, Key("Enter"), TRUE, "ignore")
                cancel == process_keypress(line, Key("Esc"), TRUE, "ignore")
            IN /\ is_some(line.command_buffer)
               /\ is_none(confirm.e.command_buffer)
               /\ cancel.next = "done"
               /\ is_none(cancel.e.command_buffer)
               /\ is_none(cancel.e.command)
               /\ cancel.e.document = document
               /\ cancel.e.cursor_position = cursor_position
               /\ cancel.e.status_message = status_message

\* ======================================================== claims: motion
\* C24: Left at column 0 goes to the end of the row above if there is one
\* and otherwise stays; Right at the end of a row goes to column 0 of the
\* row below if there is one and otherwise stays; inside a row Left and
\* Right change x by one.
C24_HorizontalMotion ==
    pc = "read_key" =>
        LET x == cursor_position.x
            y == cursor_position.y
            left == move_cursor(Self, "Left").cursor_position
            right == move_cursor(Self, "Right").cursor_position
        IN /\ left = IF x > 0 THEN Position(x - 1, y)
                     ELSE IF y > 0 THEN Position(row_len(Self, y - 1), y - 1)
                     ELSE cursor_position
           /\ right = IF x < row_len(Self, y) THEN Position(x + 1, y)
                      ELSE IF y + 1 < document_len(document) THEN Position(0, y + 1)
                      ELSE cursor_position

\* =================================================== claims: the counter
\* C25: at the redraw and at the read of every iteration of the main loop
\* quit_times is QUIT_TIMES; it is never 0; and q confirmed on a dirty
\* document leaves should_quit unset and the counter whole, however often
\* it is repeated.
C25_CounterWhole ==
    /\ pc \in {"refresh", "read_key"} => quit_times = QUIT_TIMES
    /\ quit_times > 0
    /\ (pc = "read_key" /\ is_some(command_buffer)
            /\ trim(unwrap(command_buffer)) = Str1("q") /\ is_dirty(document)) =>
          LET o == process_keypress(Self, Key("Enter"), TRUE, "ignore")
          IN /\ o.next = "done"
             /\ ~o.e.should_quit
             /\ o.e.quit_times = QUIT_TIMES
             /\ is_dirty(o.e.document)

C25_Witness ==
    /\ pc = "refresh"
    /\ ran(Str1("q"))
    /\ is_dirty(document)
    /\ ~should_quit
    /\ quit_times = QUIT_TIMES
    /\ status_message = StatusMessage(EMPTY)

\* ========================================================= claims: modes
\* The keys of the command line other than Enter.
CommandLineKeys ==
    Chars({"q", ":"}) \cup {Key("Backspace"), Key("Delete"), Key("Esc"), Ctrl("s")}
        \cup {Key(m) : m \in MotionCodes}

\* C26: with the command buffer open, a character key, Backspace, Delete,
\* a motion key, Ctrl-S or Esc leaves the rows, the dirty flag, the file
\* name and the cursor as they were.
C26_CommandLineFrame ==
    (pc = "read_key" /\ is_some(command_buffer)) =>
        \A key \in CommandLineKeys, io_ok \in BOOLEAN :
            LET o == process_keypress(Self, key, io_ok, "ignore")
            IN /\ o.e.document = document
               /\ o.e.cursor_position = cursor_position

saving == call.prompt \in {PROMPT_NAME, PROMPT_EXT} /\ pc \in {"prompt_refresh", "prompt_read"}

\* C27: at most one of these holds in a state: the command buffer is open,
\* the search prompt is active, a prompt of save is active.
C27_ModesExclusive ==
    /\ ~(is_some(command_buffer) /\ searching)
    /\ ~(is_some(command_buffer) /\ saving)
    /\ ~(searching /\ saving)

\* ===================================================== claims: filetypes
\* Whether the whole of text matches the whole of pattern: '*' stands for
\* any characters, none included, '?' for exactly one, any other character
\* for itself.
RECURSIVE glob_matches(_, _)
glob_matches(pattern, text) ==
    IF pattern = <<>> THEN text = <<>>
    ELSE IF Head(pattern) = "*"
         THEN \E k \in 0..Len(text) :
                 glob_matches(Tail(pattern), SubSeq(text, k + 1, Len(text)))
         ELSE /\ text # <<>>
              /\ Head(pattern) = "?" \/ Head(pattern) = Head(text)
              /\ glob_matches(Tail(pattern), Tail(text))

\* C28: what the matcher returns is whether the whole name matches the
\* whole pattern, for every pattern and every name, names that hold '*' or
\* '?' included.
C28_GlobMatchesExactly ==
    glob.at = "returned" => unwrap(glob.ret) = glob_matches(glob.p, glob.t)

====
